---- MODULE Spec2Model ----
(***************************************************************************)
(* Model of the task analysis engine of Smart-To-Do                        *)
(* (backend/ai_service/analyzer.py): the TaskAIAnalyzer with its provider  *)
(* modes and its rule-based fallback, and of Task.save                     *)
(* (backend/tasks/models.py).                                              *)
(*                                                                         *)
(* Representation.                                                         *)
(*  - Python text is a TLA+ string; substring search, slicing and          *)
(*    lower-casing are computed on the characters.                         *)
(*  - A Python value of unknown type (a value of the task mapping, of a    *)
(*    context entry, of a parsed provider reply) is a one-field record     *)
(*    whose field name is its type: [str |-> "x"], [num |-> 5000],         *)
(*    [nan |-> TRUE], [none |-> TRUE], [bool |-> TRUE], [list |-> <<..>>], *)
(*    [dict |-> f].  A mapping is a function from keys to such values; a   *)
(*    missing key is a key outside its DOMAIN.                             *)
(*  - A float is an integer number of hundredths (50.0 is 5000, 0.6 is     *)
(*    60, 0.25 days is 25).  A point in time is an integer number of       *)
(*    hours.                                                               *)
(*  - A call either returns or raises: [ok |-> v] or [raised |-> "Type"].  *)
(***************************************************************************)
EXTENDS Integers, Sequences, FiniteSets, TLC

(***************************************************************************)
(* Python values                                                           *)
(***************************************************************************)
PyNone == [none |-> TRUE]
PyNaN == [nan |-> TRUE]
PyStr(s) == [str |-> s]
PyNum(n) == [num |-> n]
PyBool(b) == [bool |-> b]
PyList(l) == [list |-> l]
PyDict(d) == [dict |-> d]

IsStr(v) == DOMAIN v = {"str"}
IsNum(v) == DOMAIN v = {"num"}
IsNaN(v) == DOMAIN v = {"nan"}
IsNone(v) == DOMAIN v = {"none"}
IsBool(v) == DOMAIN v = {"bool"}
IsList(v) == DOMAIN v = {"list"}
IsDict(v) == DOMAIN v = {"dict"}

Ok(v) == [ok |-> v]
Raise(e) == [raised |-> e]
Raised(r) == DOMAIN r = {"raised"}

\* The empty mapping {}.
EmptyDict == [k \in {} |-> PyNone]

\* d.get(k, default) on a mapping d.
Get(d, k, default) == IF k \in DOMAIN d THEN d[k] ELSE default

\* bool(v): Python truthiness.
Truthy(v) ==
    CASE IsStr(v) -> v.str # ""
      [] IsNum(v) -> v.num # 0
      [] IsNaN(v) -> TRUE
      [] IsNone(v) -> FALSE
      [] IsBool(v) -> v.bool
      [] IsList(v) -> v.list # <<>>
      [] IsDict(v) -> DOMAIN v.dict # {}

\* The hundredths of a whole number: 50.0 is F(50).
F(n) == n * 100

Min(a, b) == IF a < b THEN a ELSE b
Max(a, b) == IF a > b THEN a ELSE b

(***************************************************************************)
(* Text                                                                    *)
(***************************************************************************)
UpperCase == "ABCDEFGHIJKLMNOPQRSTUVWXYZ"
LowerCase == "abcdefghijklmnopqrstuvwxyz"

\* The lower-case letter of every upper-case letter, and the converse.
lower_of == [c \in {SubSeq(UpperCase, i, i) : i \in 1..Len(UpperCase)} |->
                SubSeq(LowerCase, CHOOSE i \in 1..Len(UpperCase) :
                                      SubSeq(UpperCase, i, i) = c,
                                  CHOOSE i \in 1..Len(UpperCase) :
                                      SubSeq(UpperCase, i, i) = c)]
upper_of == [c \in {SubSeq(LowerCase, i, i) : i \in 1..Len(LowerCase)} |->
                SubSeq(UpperCase, CHOOSE i \in 1..Len(LowerCase) :
                                      SubSeq(LowerCase, i, i) = c,
                                  CHOOSE i \in 1..Len(LowerCase) :
                                      SubSeq(LowerCase, i, i) = c)]

\* str.lower() of one character.
LowerChar(c) == IF c \in DOMAIN lower_of THEN lower_of[c] ELSE c

\* str.upper() of one character.
UpperChar(c) == IF c \in DOMAIN upper_of THEN upper_of[c] ELSE c

RECURSIVE Lower(_)
\* str.lower()
Lower(s) ==
    IF Len(s) = 0 THEN ""
    ELSE LowerChar(SubSeq(s, 1, 1)) \o Lower(SubSeq(s, 2, Len(s)))

\* keyword in text
Contains(text, keyword) ==
    \E i \in 1..(Len(text) - Len(keyword) + 1) :
        SubSeq(text, i, i + Len(keyword) - 1) = keyword

\* s[:n]
Prefix(s, n) == SubSeq(s, 1, Min(n, Len(s)))

\* any(keyword in text for keyword in keywords), keywords a sequence
AnyIn(keywords, text) == \E i \in 1..Len(keywords) : Contains(text, keywords[i])

\* re.search(pattern, text, re.IGNORECASE) for a pattern that is an
\* alternation of literals, given as the sequence of its alternatives.
ReSearch(alternatives, text) ==
    LET lowered == Lower(text)
    IN \E i \in 1..Len(alternatives) : Contains(lowered, Lower(alternatives[i]))

\* f"{title} {description}"
Blob(title, description) == title \o " " \o description

(***************************************************************************)
(* Rule-based heuristics                                                   *)
(***************************************************************************)
\* priority_base: the base score of the declared priority.
priority_base(current_priority) ==
    CASE current_priority = PyStr("low") -> F(25)
      [] current_priority = PyStr("medium") -> F(50)
      [] current_priority = PyStr("high") -> F(75)
      [] current_priority = PyStr("urgent") -> F(90)
      [] OTHER -> F(50)

urgency_keywords ==
    << [keyword |-> "urgent", boost |-> F(20)],
       [keyword |-> "asap", boost |-> F(15)],
       [keyword |-> "immediately", boost |-> F(15)],
       [keyword |-> "critical", boost |-> F(20)],
       [keyword |-> "emergency", boost |-> F(25)],
       [keyword |-> "deadline", boost |-> F(10)],
       [keyword |-> "due", boost |-> F(8)],
       [keyword |-> "important", boost |-> F(5)],
       [keyword |-> "priority", boost |-> F(5)],
       [keyword |-> "meeting", boost |-> F(8)],
       [keyword |-> "call", boost |-> F(6)],
       [keyword |-> "email", boost |-> F(3)] >>

calming_keywords ==
    << [keyword |-> "someday", boost |-> F(-15)],
       [keyword |-> "maybe", boost |-> F(-10)],
       [keyword |-> "later", boost |-> F(-8)],
       [keyword |-> "whenever", boost |-> F(-12)],
       [keyword |-> "eventually", boost |-> F(-10)],
       [keyword |-> "optional", boost |-> F(-15)],
       [keyword |-> "nice to have", boost |-> F(-10)] >>

\* The loop assigning instead of adding (score_adjustment = boost): only the
\* last keyword of the table that occurs in the text counts.
KeywordAdjustmentLast(table, text) ==
    LET matching == {i \in 1..Len(table) : Contains(text, table[i].keyword)}
    IN IF matching = {} THEN 0
       ELSE table[CHOOSE i \in matching : \A j \in matching : j <= i].boost

RECURSIVE KeywordAdjustment(_, _)
\* for keyword, boost in table.items(): if keyword in text: adjustment += boost
KeywordAdjustment(table, text) ==
    IF table = <<>> THEN 0
    ELSE (IF Contains(text, Head(table).keyword) THEN Head(table).boost ELSE 0)
         + KeywordAdjustment(Tail(table), text)

context_sources == {PyStr("whatsapp"), PyStr("email")}
context_words == <<"urgent", "asap", "need", "help">>

\* +10 for every word of the list that occurs in the content, instead of
\* +10 for the entry.
EntryAdjustmentPerWord(entry) ==
    LET content == Lower(Get(entry, "content", PyStr("")).str)
        source == Get(entry, "source_type", PyStr(""))
        found == {i \in 1..Len(context_words) : Contains(content, context_words[i])}
    IN IF source \in context_sources THEN F(10) * Cardinality(found) ELSE 0

\* The +10 of one context entry whose content is text.
EntryAdjustment(entry) ==
    LET content == Lower(Get(entry, "content", PyStr("")).str)
        source == Get(entry, "source_type", PyStr(""))
    IN IF source \in context_sources /\ AnyIn(context_words, content)
       THEN F(10) ELSE 0

RECURSIVE ContextAdjustmentFirstFive(_)
\* The loop over context_entries[:5] instead of context_entries.
ContextAdjustmentFirstFive(entries) ==
    IF entries = <<>> THEN 0
    ELSE LET used == SubSeq(entries, 1, Min(5, Len(entries)))
         IN EntryAdjustment(Head(used))
            + ContextAdjustmentFirstFive(Tail(used))

RECURSIVE ContextAdjustment(_)
\* for entry in context_entries: ... score_adjustment += 10
ContextAdjustment(entries) ==
    IF entries = <<>> THEN 0
    ELSE EntryAdjustment(Head(entries)) + ContextAdjustment(Tail(entries))

\* entry.get('content', '').lower() raises AttributeError on a value that
\* is not text.
ContentLowerRaises(entries) ==
    \E i \in 1..Len(entries) : ~IsStr(Get(entries[i], "content", PyStr("")))

\* _calculate_priority_score clamping the sum after the urgency keywords,
\* before the calming keywords and the context entries are added.
calculate_priority_score_clamping_early(title, description, current_priority, context_entries) ==
    LET text == Blob(title, description)
    IN IF IsList(current_priority) \/ IsDict(current_priority)
       THEN Raise("TypeError")
       ELSE IF Truthy(context_entries) /\ ContentLowerRaises(context_entries.list)
       THEN Raise("AttributeError")
       ELSE LET context_adjustment ==
                    IF Truthy(context_entries)
                    THEN ContextAdjustment(context_entries.list) ELSE 0
                boosted == Min(F(100), Max(F(0),
                               priority_base(current_priority)
                               + KeywordAdjustment(urgency_keywords, text)))
                final_score == boosted + KeywordAdjustment(calming_keywords, text)
                               + context_adjustment
            IN Ok(Min(F(100), Max(F(0), final_score)))

\* TaskAIAnalyzer._calculate_priority_score; title and description are the
\* lower-cased texts, current_priority and context_entries Python values.
calculate_priority_score(title, description, current_priority, context_entries) ==
    LET text == Blob(title, description)
        score_adjustment == KeywordAdjustment(urgency_keywords, text)
                            + KeywordAdjustment(calming_keywords, text)
    IN IF IsList(current_priority) \/ IsDict(current_priority)
       THEN Raise("TypeError")
       ELSE IF Truthy(context_entries) /\ ContentLowerRaises(context_entries.list)
       THEN Raise("AttributeError")
       ELSE LET context_adjustment ==
                    IF Truthy(context_entries)
                    THEN ContextAdjustment(context_entries.list) ELSE 0
                final_score == priority_base(current_priority)
                               + score_adjustment + context_adjustment
            IN Ok(Min(F(100), Max(F(0), final_score)))

\* time_patterns with the patterns in the opposite order.
time_patterns_reversed ==
    << [alternatives |-> <<"month", "monthly">>, days |-> F(30)],
       [alternatives |-> <<"next week">>, days |-> F(14)],
       [alternatives |-> <<"this week", "end of week">>, days |-> F(7)],
       [alternatives |-> <<"tomorrow", "by tomorrow">>, days |-> F(1)],
       [alternatives |-> <<"today", "asap", "immediately">>, days |-> 25] >>

\* time_patterns, in the order of the dict; days in hundredths of a day.
time_patterns ==
    << [alternatives |-> <<"today", "asap", "immediately">>, days |-> 25],
       [alternatives |-> <<"tomorrow", "by tomorrow">>, days |-> F(1)],
       [alternatives |-> <<"this week", "end of week">>, days |-> F(7)],
       [alternatives |-> <<"next week">>, days |-> F(14)],
       [alternatives |-> <<"month", "monthly">>, days |-> F(30)] >>

\* now + timedelta(days=int(days)): the fraction of a day is dropped.
PlusWholeDays(now, days) == now + (days \div 100) * 24

\* now + timedelta(days=days): hours, days in hundredths of a day.
PlusDays(now, days) == now + (days * 24) \div 100

\* The priority-based day offset with > in place of >=.
days_ahead_strict(priority_score) ==
    IF priority_score > F(80) THEN F(1)
    ELSE IF priority_score > F(60) THEN F(3)
    ELSE IF priority_score > F(40) THEN F(7)
    ELSE F(14)

\* The priority-based day offset.
days_ahead(priority_score) ==
    IF priority_score >= F(80) THEN F(1)
    ELSE IF priority_score >= F(60) THEN F(3)
    ELSE IF priority_score >= F(40) THEN F(7)
    ELSE F(14)

\* _suggest_deadline leaving a task of low priority without a deadline.
suggest_deadline_unscheduled(title, description, priority_score, current_load, now) ==
    LET text == Blob(title, description)
        matching == {i \in 1..Len(time_patterns) :
                        ReSearch(time_patterns[i].alternatives, text)}
    IN IF matching # {}
       THEN LET first == CHOOSE i \in matching : \A j \in matching : i <= j
            IN Ok([time |-> PlusDays(now, time_patterns[first].days)])
       ELSE IF priority_score < F(40) THEN Ok(PyNone)
       ELSE IF Truthy(current_load)
               /\ Get(current_load.dict, "active_tasks", PyNum(0)).num > 10
       THEN Ok([time |-> PlusDays(now, (days_ahead(priority_score) * 3) \div 2)])
       ELSE Ok([time |-> PlusDays(now, days_ahead(priority_score))])

\* _suggest_deadline adjusting for the workload before it looks for the
\* time patterns, so that the offset of a pattern is multiplied as well.
suggest_deadline_scaling_patterns(title, description, priority_score, current_load, now) ==
    LET text == Blob(title, description)
        matching == {i \in 1..Len(time_patterns) :
                        ReSearch(time_patterns[i].alternatives, text)}
        overloaded == /\ Truthy(current_load)
                      /\ IsNum(Get(current_load.dict, "active_tasks", PyNum(0)))
                      /\ Get(current_load.dict, "active_tasks", PyNum(0)).num > 10
        days == IF matching # {}
                THEN time_patterns[CHOOSE i \in matching :
                                       \A j \in matching : i <= j].days
                ELSE days_ahead(priority_score)
    IN Ok([time |-> PlusDays(now, IF overloaded THEN (days * 3) \div 2 ELSE days)])

\* TaskAIAnalyzer._suggest_deadline, with the value timezone.now() returns.
suggest_deadline(title, description, priority_score, current_load, now) ==
    LET text == Blob(title, description)
        matching == {i \in 1..Len(time_patterns) :
                        ReSearch(time_patterns[i].alternatives, text)}
    IN IF matching # {}
       THEN LET first == CHOOSE i \in matching : \A j \in matching : i <= j
            IN Ok([time |-> PlusDays(now, time_patterns[first].days)])
       ELSE IF ~Truthy(current_load)
       THEN Ok([time |-> PlusDays(now, days_ahead(priority_score))])
       ELSE LET task_count == Get(current_load.dict, "active_tasks", PyNum(0))
            IN IF ~(IsNum(task_count) \/ IsBool(task_count) \/ IsNaN(task_count))
               THEN Raise("TypeError")
               ELSE IF IsNum(task_count) /\ task_count.num > 10
               THEN Ok([time |-> PlusDays(now, (days_ahead(priority_score) * 3) \div 2)])
               ELSE Ok([time |-> PlusDays(now, days_ahead(priority_score))])

enhance_sources == {PyStr("email"), PyStr("whatsapp")}

\* The entries of context_entries[:2] that the enhancement uses.
relevant_context(entries) ==
    SelectSeq(SubSeq(entries, 1, Min(2, Len(entries))),
              LAMBDA entry : Get(entry, "source_type", PyNone) \in enhance_sources)

RECURSIVE JoinContext(_)
\* "\n".join(f"Context from {entry['source_type']}: {content}..." ...)
JoinContext(entries) ==
    IF entries = <<>> THEN ""
    ELSE LET entry == Head(entries)
             content == Prefix(Get(entry, "content", PyStr("")).str, 100)
             line == "Context from " \o entry["source_type"].str \o ": "
                     \o content \o "..."
         IN IF Len(entries) = 1 THEN line
            ELSE line \o "\n" \o JoinContext(Tail(entries))

\* _enhance_description without its first return: an empty description is
\* enhanced from the context like any other.
enhance_description_from_context(task_json, context_entries) ==
    LET original_desc == Get(task_json, "description", PyStr(""))
    IN IF ~Truthy(context_entries) THEN Ok(original_desc)
       ELSE LET relevant == relevant_context(context_entries.list)
            IN IF relevant = <<>> THEN Ok(original_desc)
               ELSE IF \E i \in 1..Len(relevant) :
                          ~IsStr(Get(relevant[i], "content", PyStr("")))
               THEN Raise("TypeError")
               ELSE IF ~IsStr(original_desc) THEN Raise("TypeError")
               ELSE Ok(PyStr(original_desc.str \o "\n\nAdditional context:\n"
                                \o JoinContext(relevant)))

\* TaskAIAnalyzer._enhance_description
enhance_description(task_json, context_entries) ==
    LET original_desc == Get(task_json, "description", PyStr(""))
    IN IF ~Truthy(original_desc) THEN Ok(PyStr(""))
       ELSE IF ~Truthy(context_entries) THEN Ok(original_desc)
       ELSE LET relevant == relevant_context(context_entries.list)
            IN IF relevant = <<>> THEN Ok(original_desc)
               ELSE IF \E i \in 1..Len(relevant) :
                          ~IsStr(Get(relevant[i], "content", PyStr("")))
               THEN Raise("TypeError")
               ELSE IF ~IsStr(original_desc) THEN Raise("TypeError")
               ELSE Ok(PyStr(original_desc.str \o "\n\nAdditional context:\n"
                                \o JoinContext(relevant)))

category_keywords ==
    << [category |-> "work", keywords |-> <<"meeting", "project", "deadline",
            "client", "business", "office", "presentation">>],
       [category |-> "health", keywords |-> <<"doctor", "appointment",
            "exercise", "gym", "medicine", "health", "workout">>],
       [category |-> "finance", keywords |-> <<"payment", "bill", "money",
            "bank", "budget", "expense", "invoice">>],
       [category |-> "personal", keywords |-> <<"family", "friend", "home",
            "personal", "hobby", "vacation", "birthday">>],
       [category |-> "learning", keywords |-> <<"study", "course", "learn",
            "read", "book", "training", "education">>],
       [category |-> "shopping", keywords |-> <<"buy", "purchase", "shop",
            "order", "grocery", "store">>],
       [category |-> "maintenance", keywords |-> <<"repair", "fix", "clean",
            "maintenance", "service", "update">>] >>

RECURSIVE Suggestions(_, _)
\* for category, keywords in table: if any(...): suggestions.append(category)
Suggestions(table, text) ==
    IF table = <<>> THEN <<>>
    ELSE (IF AnyIn(Head(table).keywords, text)
          THEN <<Head(table).category>> ELSE <<>>)
         \o Suggestions(Tail(table), text)

\* The last three suggestions instead of the first three: suggestions[-3:]
LastCategories(suggestions) ==
    SubSeq(suggestions, Max(1, Len(suggestions) - 2), Len(suggestions))

\* suggestions[:3]
TopCategories(suggestions) == SubSeq(suggestions, 1, Min(3, Len(suggestions)))

\* _suggest_categories without .lower(): the keywords are searched in the
\* text as it was typed.
suggest_categories_case_sensitive(title, description) ==
    TopCategories(Suggestions(category_keywords, Blob(title, description)))

\* TaskAIAnalyzer._suggest_categories
suggest_categories(title, description) ==
    TopCategories(Suggestions(category_keywords, Lower(Blob(title, description))))

\* The confidence _create_analysis_result gives a reply without one: 0.5
default_confidence == 50

fallback_confidence == 60
fallback_reasoning ==
    "Analysis performed using rule-based heuristics (AI unavailable)"

\* TaskAIAnalyzer._fallback_analysis, with the value timezone.now() returns.
fallback_analysis(task_json, context_entries, user_prefs, current_load, now) ==
    LET title_value == Get(task_json, "title", PyStr(""))
        description_value == Get(task_json, "description", PyStr(""))
        current_priority == Get(task_json, "priority", PyStr("medium"))
    IN IF ~IsStr(title_value) \/ ~IsStr(description_value)
       THEN Raise("AttributeError")
       ELSE
       LET title == Lower(title_value.str)
           description == Lower(description_value.str)
           priority_score == calculate_priority_score(
                                 title, description, current_priority, context_entries)
       IN IF Raised(priority_score) THEN priority_score
          ELSE
          LET suggested_deadline == suggest_deadline(
                  title, description, priority_score.ok, current_load, now)
              enhanced_description == enhance_description(task_json, context_entries)
          IN IF Raised(suggested_deadline) THEN suggested_deadline
             ELSE IF Raised(enhanced_description) THEN enhanced_description
             ELSE Ok([priority_score |-> priority_score.ok,
                      suggested_deadline |-> suggested_deadline.ok,
                      enhanced_description |-> enhanced_description.ok,
                      suggested_categories |->
                          PyList(suggest_categories(title, description)),
                      confidence_score |-> fallback_confidence,
                      reasoning |-> PyStr(fallback_reasoning)])

(***************************************************************************)
(* Provider path                                                           *)
(***************************************************************************)
RECURSIVE Upper(_)
\* str.upper()
Upper(s) ==
    IF Len(s) = 0 THEN ""
    ELSE UpperChar(SubSeq(s, 1, 1)) \o Upper(SubSeq(s, 2, Len(s)))

\* One line of the context block: f"[{source.upper()}] {timestamp}: {content}"
\* with content = entry.get('content', '')[:200]; the timestamp is text.
FormatEntry(entry) ==
    LET source == Get(entry, "source_type", PyStr("unknown"))
        content == Get(entry, "content", PyStr(""))
        timestamp == Get(entry, "timestamp", PyStr(""))
    IN IF ~IsStr(source) THEN Raise("AttributeError")
       ELSE IF ~IsStr(content) THEN Raise("TypeError")
       ELSE Ok("[" \o Upper(source.str) \o "] " \o timestamp.str \o ": "
               \o Prefix(content.str, 200))

RECURSIVE JoinLines(_)
\* "\n".join(formatted)
JoinLines(lines) ==
    IF lines = <<>> THEN ""
    ELSE IF Len(lines) = 1 THEN Head(lines).ok
    ELSE Head(lines).ok \o "\n" \o JoinLines(Tail(lines))

\* _format_context_entries without [:5]: every entry gets its line.
format_context_entries_unlimited(entries) ==
    IF entries = <<>> THEN Ok("No additional context available.")
    ELSE LET formatted == [i \in 1..Len(entries) |-> FormatEntry(entries[i])]
         IN IF \E i \in 1..Len(formatted) : Raised(formatted[i])
            THEN formatted[CHOOSE i \in 1..Len(formatted) :
                        /\ Raised(formatted[i])
                        /\ \A j \in 1..(i - 1) : ~Raised(formatted[j])]
            ELSE Ok(JoinLines(formatted))

\* TaskAIAnalyzer._format_context_entries, on a list of entries
format_context_entries(entries) ==
    IF entries = <<>> THEN Ok("No additional context available.")
    ELSE LET used == SubSeq(entries, 1, Min(5, Len(entries)))
             formatted == [i \in 1..Len(used) |-> FormatEntry(used[i])]
         IN IF \E i \in 1..Len(formatted) : Raised(formatted[i])
            THEN formatted[CHOOSE i \in 1..Len(formatted) :
                        /\ Raised(formatted[i])
                        /\ \A j \in 1..(i - 1) : ~Raised(formatted[j])]
            ELSE Ok(JoinLines(formatted))

\* What the provider does with one request: the request raises, or the
\* reply is text that is not JSON, or text that is the JSON of a value.
RequestFails == [fails |-> "APIConnectionError"]
ReplyText(t) == [text |-> t]
ReplyJson(v) == [json |-> v]

\* TaskAIAnalyzer._get_ai_response: logs and re-raises the provider's error.
get_ai_response(reply) ==
    IF DOMAIN reply = {"fails"} THEN Raise(reply.fails) ELSE Ok(reply)

\* json.loads(response)
json_loads(response) ==
    IF DOMAIN response = {"text"} THEN Raise("JSONDecodeError")
    ELSE Ok(response.json)

\* The numerals float() accepts among the texts of the model.
numerals == << [text |-> "75", value |-> F(75)],
               [text |-> "0.9", value |-> 90] >>

\* float(v)
float(v) ==
    CASE IsNum(v) -> Ok(v)
      [] IsNaN(v) -> Ok(v)
      [] IsBool(v) -> Ok(PyNum(IF v.bool THEN F(1) ELSE 0))
      [] IsStr(v) ->
           IF \E i \in 1..Len(numerals) : numerals[i].text = v.str
           THEN Ok(PyNum(numerals[CHOOSE i \in 1..Len(numerals) :
                                      numerals[i].text = v.str].value))
           ELSE Raise("ValueError")
      [] OTHER -> Raise("TypeError")

\* max(a, x) and min(a, x) of Python on floats: the first argument stays
\* unless the second compares greater (less); every comparison with NaN is
\* false.
PyMax(a, x) == IF IsNum(x) /\ IsNum(a) /\ x.num > a.num THEN x ELSE a
PyMin(a, x) == IF IsNum(x) /\ IsNum(a) /\ x.num < a.num THEN x ELSE a

\* Clamp with the lower bound forgotten: min(hi, x).
ClampAbove(lo, hi, x) == PyMin(PyNum(hi), x)

\* min(hi, max(lo, x))
Clamp(lo, hi, x) == PyMin(PyNum(hi), PyMax(PyNum(lo), x))

\* The ISO-8601 texts of the model that datetime.fromisoformat parses, with
\* the hour they denote (after make_aware for the one without an offset).
iso_times == << [text |-> "2024-01-03T00:00:00Z", time |-> 48],
                [text |-> "2024-01-02T12:00:00", time |-> 36] >>

\* datetime.fromisoformat(deadline_str.replace('Z', '+00:00')), made aware
fromisoformat(deadline_str) ==
    IF \E i \in 1..Len(iso_times) : iso_times[i].text = deadline_str
    THEN Ok([time |-> iso_times[CHOOSE i \in 1..Len(iso_times) :
                                    iso_times[i].text = deadline_str].time])
    ELSE Raise("ValueError")

\* The deadline part of _create_analysis_result.
parse_deadline(deadline_str) ==
    IF ~Truthy(deadline_str) THEN Ok(PyNone)
    ELSE IF ~IsStr(deadline_str) THEN Raise("AttributeError")
    ELSE IF Lower(deadline_str.str) = "null" THEN Ok(PyNone)
    ELSE LET parsed == fromisoformat(deadline_str.str)
         IN IF Raised(parsed) THEN Ok(PyNone) ELSE parsed

\* The AIAnalysisResult _create_analysis_result builds from the mapping it
\* is given.
AnalysisResultOf(data) ==
    LET suggested_deadline == parse_deadline(Get(data, "suggested_deadline", PyNone))
        priority == float(Get(data, "priority_score", PyNum(F(50))))
        confidence == float(Get(data, "confidence_score", PyNum(50)))
    IN IF Raised(suggested_deadline) THEN suggested_deadline
       ELSE IF Raised(priority) THEN priority
       ELSE IF Raised(confidence) THEN confidence
       ELSE Ok([priority_score |-> Clamp(F(0), F(100), priority.ok).num,
                suggested_deadline |-> suggested_deadline.ok,
                enhanced_description |-> Get(data, "enhanced_description", PyStr("")),
                suggested_categories |-> Get(data, "suggested_categories", PyList(<<>>)),
                confidence_score |-> Clamp(0, F(1), confidence.ok).num,
                reasoning |-> Get(data, "reasoning", PyStr(""))])

\* _create_analysis_result reading a reply that is not an object as an
\* object without fields.
create_analysis_result_lenient(result_data) ==
    AnalysisResultOf(IF IsDict(result_data) THEN result_data.dict ELSE EmptyDict)

\* TaskAIAnalyzer._create_analysis_result: result_data.get raises on a value
\* that is not a mapping.
create_analysis_result(result_data) ==
    IF ~IsDict(result_data) THEN Raise("AttributeError")
    ELSE AnalysisResultOf(result_data.dict)

\* context_entries or []
OrEmptyList(context_entries) ==
    IF Truthy(context_entries) THEN context_entries.list ELSE <<>>

\* TaskAIAnalyzer._ai_analysis; reply is what the provider does with the
\* request of this call.
ai_analysis(task_json, context_entries, user_prefs, current_load, reply, now) ==
    LET context_info == format_context_entries(OrEmptyList(context_entries))
    IN IF Raised(context_info) THEN context_info
       ELSE
       LET response == get_ai_response(reply)
       IN IF Raised(response) THEN response
          ELSE
          LET result_data == json_loads(response.ok)
          IN IF Raised(result_data)
             THEN fallback_analysis(task_json, context_entries, user_prefs,
                                    current_load, now)
             ELSE create_analysis_result(result_data.ok)

\* Whether a call of analyze_task sends a request to the provider.
RequestsProvider(mode, context_entries) ==
    /\ mode # "fallback"
    /\ ~Raised(format_context_entries(OrEmptyList(context_entries)))

\* analyze_task without its except clause: the failure of the first attempt
\* reaches the caller.
analyze_task_propagating(mode, task_json, context_entries, user_prefs, current_load, reply, now) ==
    IF mode = "fallback"
    THEN fallback_analysis(task_json, context_entries, user_prefs, current_load, now)
    ELSE ai_analysis(task_json, context_entries, user_prefs, current_load, reply, now)

\* TaskAIAnalyzer.analyze_task
analyze_task(mode, task_json, context_entries, user_prefs, current_load, reply, now) ==
    LET attempt == IF mode = "fallback"
                   THEN fallback_analysis(task_json, context_entries, user_prefs,
                                          current_load, now)
                   ELSE ai_analysis(task_json, context_entries, user_prefs,
                                    current_load, reply, now)
    IN IF Raised(attempt)
       THEN fallback_analysis(task_json, context_entries, user_prefs,
                              current_load, now)
       ELSE attempt

(***************************************************************************)
(* Construction of the engine                                              *)
(***************************************************************************)
provider_modes == {"openai", "anthropic", "lmstudio"}

\* getattr(settings, name, default)
Setting(settings, name, default) ==
    IF name \in DOMAIN settings THEN settings[name] ELSE default

NoClient == [provider |-> "none", model |-> ""]

\* TaskAIAnalyzer._setup_openai: the client it stores, or the exception it
\* raises.  client_ok: whether the constructor of the client returns.
setup_openai(settings, installed, client_ok) ==
    IF "openai" \notin installed THEN Raise("OpenAI package not installed")
    ELSE IF "OPENAI_API_KEY" \notin DOMAIN settings \/ ~client_ok
    THEN Raise("OpenAI setup failed")
    ELSE Ok([provider |-> "openai",
             model |-> Setting(settings, "OPENAI_MODEL", "gpt-3.5-turbo")])

\* TaskAIAnalyzer._setup_anthropic
setup_anthropic(settings, installed, client_ok) ==
    IF "anthropic" \notin installed THEN Raise("Anthropic package not installed")
    ELSE IF "ANTHROPIC_API_KEY" \notin DOMAIN settings \/ ~client_ok
    THEN Raise("Anthropic setup failed")
    ELSE Ok([provider |-> "anthropic",
             model |-> Setting(settings, "ANTHROPIC_MODEL", "claude-3-haiku-20240307")])

\* TaskAIAnalyzer._setup_lmstudio
setup_lmstudio(settings, installed, client_ok) ==
    IF "openai" \notin installed THEN Raise("OpenAI package required for LM Studio")
    ELSE IF ~client_ok THEN Raise("LM Studio setup failed")
    ELSE Ok([provider |-> "lmstudio",
             model |-> Setting(settings, "LM_STUDIO_MODEL", "local-model")])

\* The _setup_* call setup_ai_client dispatches to for the configured mode;
\* no call for any other mode.
provider_setup(configured, settings, installed, client_ok) ==
    CASE configured = "openai" -> setup_openai(settings, installed, client_ok)
      [] configured = "anthropic" -> setup_anthropic(settings, installed, client_ok)
      [] configured = "lmstudio" -> setup_lmstudio(settings, installed, client_ok)
      [] OTHER -> Ok(NoClient)

\* setup_ai_client without its except clause.
setup_ai_client_unguarded(configured, settings, installed, client_ok) ==
    LET made == provider_setup(configured, settings, installed, client_ok)
    IN IF Raised(made) THEN made
       ELSE IF configured \in provider_modes
       THEN Ok([mode |-> configured, client |-> made.ok, caught |-> ""])
       ELSE Ok([mode |-> "fallback", client |-> NoClient, caught |-> ""])

\* setup_ai_client without its else branch: an unrecognised mode stays.
setup_ai_client_keeps_mode(configured, settings, installed, client_ok) ==
    LET made == provider_setup(configured, settings, installed, client_ok)
    IN IF Raised(made)
       THEN Ok([mode |-> "fallback", client |-> NoClient, caught |-> made.raised])
       ELSE Ok([mode |-> configured, client |-> made.ok, caught |-> ""])

\* TaskAIAnalyzer.setup_ai_client, from the mode __init__ read: the mode and
\* the client of the engine afterwards and the exception it caught and logged
\* ("" when there was none), or the exception it lets through.
setup_ai_client(configured, settings, installed, client_ok) ==
    LET made == provider_setup(configured, settings, installed, client_ok)
    IN IF Raised(made)
       THEN Ok([mode |-> "fallback", client |-> NoClient, caught |-> made.raised])
       ELSE IF configured \in provider_modes
       THEN Ok([mode |-> configured, client |-> made.ok, caught |-> ""])
       ELSE Ok([mode |-> "fallback", client |-> NoClient, caught |-> ""])

(***************************************************************************)
(* Inputs of the model                                                     *)
(***************************************************************************)
\* The most calls of analyze_task in one behaviour.
MaxCalls == 2

SettingsChoices ==
    { [name \in {} |-> ""],
      [AI_SERVICE_MODE |-> "fallback"],
      [AI_SERVICE_MODE |-> "gpt4all"],
      [AI_SERVICE_MODE |-> "OpenAI", OPENAI_API_KEY |-> "sk-test"],
      [AI_SERVICE_MODE |-> "openai", OPENAI_API_KEY |-> "sk-test"],
      [AI_SERVICE_MODE |-> "openai"],
      [AI_SERVICE_MODE |-> "anthropic", ANTHROPIC_API_KEY |-> "sk-ant-test"],
      [AI_SERVICE_MODE |-> "lmstudio"] }

InstalledChoices == { {"openai", "anthropic"}, {} }

TaskUrgent ==
    [title |-> PyStr("URGENT: fix"), description |-> PyStr("Due today"),
     priority |-> PyStr("high")]
TaskManyTopics ==
    [title |-> PyStr("Gym bill"), description |-> PyStr("Buy office book"),
     priority |-> PyStr("medium")]
TaskNullTitle ==
    [title |-> PyNone, description |-> PyStr("Review"),
     priority |-> PyStr("medium")]
TaskEmpty == [key \in {} |-> PyNone]

Tasks == {TaskUrgent, TaskManyTopics, TaskNullTitle, TaskEmpty}

EntryUrgentEmail ==
    [content |-> PyStr("URGENT by EOD"),
     source_type |-> PyStr("email"), timestamp |-> PyStr("2024-01-01T09:00:00Z")]
EntryNullContent ==
    [content |-> PyNone, source_type |-> PyStr("whatsapp")]

Contexts == {PyNone, PyList(<<EntryUrgentEmail>>), PyList(<<EntryNullContent>>)}

Loads == {PyNone, PyDict([active_tasks |-> PyNum(11), high_priority_tasks |-> PyNum(2)])}

ReplyComplete ==
    ReplyJson(PyDict([priority_score |-> PyNum(F(85)),
                      suggested_deadline |-> PyStr("2024-01-03T00:00:00Z"),
                      enhanced_description |-> PyStr("Restart the server"),
                      suggested_categories |-> PyList(<<"work", "maintenance">>),
                      confidence_score |-> PyNum(90),
                      reasoning |-> PyStr("production outage")]))
ReplyOutOfRange ==
    ReplyJson(PyDict([priority_score |-> PyNum(F(150)),
                      suggested_deadline |-> PyStr("NULL"),
                      enhanced_description |-> PyStr(""),
                      suggested_categories |-> PyList(<<"work", "health", "finance", "personal">>),
                      confidence_score |-> PyNum(F(-2)),
                      reasoning |-> PyStr("")]))
ReplyNaN ==
    ReplyJson(PyDict([priority_score |-> PyNaN, confidence_score |-> PyNaN]))
ReplyTextScores ==
    ReplyJson(PyDict([priority_score |-> PyStr("75"), confidence_score |-> PyBool(TRUE),
                      suggested_deadline |-> PyStr("next friday")]))
ReplyWordScore ==
    ReplyJson(PyDict([priority_score |-> PyStr("high"), confidence_score |-> PyNum(90)]))
ReplyNumberDeadline ==
    ReplyJson(PyDict([priority_score |-> PyNum(F(40)), suggested_deadline |-> PyNum(5)]))
ReplyEmptyObject == ReplyJson(PyDict([key \in {} |-> PyNone]))
ReplyArray == ReplyJson(PyList(<<"work">>))
ReplyProse == ReplyText("Sure! Here is my analysis of the task.")

Replies == {RequestFails, ReplyProse, ReplyArray, ReplyEmptyObject,
            ReplyComplete, ReplyOutOfRange, ReplyNaN, ReplyTextScores,
            ReplyWordScore, ReplyNumberDeadline}

\* No request was sent in the call.
NoRequest == [none |-> TRUE]
NoCall == [none |-> TRUE]

\* No Task instance is at hand.
NoTask == [none |-> TRUE]

(***************************************************************************)
(* The engine as a state machine                                           *)
(***************************************************************************)
VARIABLES
    settings,           \* the Django settings the process runs with
    installed,          \* the provider packages that can be imported
    client_constructs,  \* whether the constructor of a provider client returns
    phase,              \* "loading" until TaskAIAnalyzer() returns ("ready")
                        \* or raises ("failed")
    mode,               \* self.mode
    client,             \* self.client and self.model
    setup_warning,      \* the exception setup_ai_client caught and logged
    now,                \* the clock: what timezone.now() returns
    calls,              \* the calls of analyze_task so far
    provider_requests,  \* the requests sent to a provider so far
    previous_failed,    \* whether the provider request of the call before the
                        \* last one failed
    call,               \* the arguments of the last call
    result,             \* what the last call returned or raised
    task                \* a Task instance in memory and its row in the database

vars == <<settings, installed, client_constructs, phase, mode, client,
          setup_warning, now, calls, provider_requests, previous_failed, call,
          result, task>>

\* getattr(settings, 'AI_SERVICE_MODE', 'fallback')
configured_mode == Setting(settings, "AI_SERVICE_MODE", "fallback")

Init ==
    /\ settings \in SettingsChoices
    /\ installed \in InstalledChoices
    /\ client_constructs \in BOOLEAN
    /\ phase = "loading"
    /\ mode = ""
    /\ client = NoClient
    /\ setup_warning = ""
    /\ now = 0
    /\ calls = 0
    /\ provider_requests = 0
    /\ previous_failed = FALSE
    /\ call = NoCall
    /\ result = NoCall
    /\ task = NoTask

\* task_analyzer = TaskAIAnalyzer(): __init__ with setup_ai_client
Construct ==
    /\ phase = "loading"
    /\ LET engine == setup_ai_client(configured_mode, settings, installed,
                                     client_constructs)
       IN IF Raised(engine)
          THEN /\ phase' = "failed"
               /\ mode' = configured_mode
               /\ UNCHANGED <<client, setup_warning>>
          ELSE /\ phase' = "ready"
               /\ mode' = engine.ok.mode
               /\ client' = engine.ok.client
               /\ setup_warning' = engine.ok.caught
    /\ UNCHANGED <<task, settings, installed, client_constructs, now, calls,
                   provider_requests, previous_failed, call, result>>

\* analyze_task setting self.mode to 'fallback' when the provider request
\* of the call failed.
AnalyzeTaskDowngrading ==
    /\ phase = "ready"
    /\ calls < MaxCalls
    /\ \E task_json \in Tasks, context_entries \in Contexts, current_load \in Loads :
       \E reply \in (IF RequestsProvider(mode, context_entries)
                     THEN Replies ELSE {NoRequest}) :
         /\ now' = now + 1
         /\ call' = [task_json |-> task_json, context_entries |-> context_entries,
                     current_load |-> current_load, reply |-> reply, now |-> now']
         /\ result' = analyze_task(mode, task_json, context_entries, PyNone,
                                   current_load, reply, now')
         /\ provider_requests' = provider_requests + (IF reply = NoRequest THEN 0 ELSE 1)
         /\ previous_failed' = (calls > 0 /\ call.reply = RequestFails)
         /\ mode' = IF reply = RequestFails THEN "fallback" ELSE mode
    /\ calls' = calls + 1
    /\ UNCHANGED <<task, settings, installed, client_constructs, phase, client,
                   setup_warning>>

\* task_analyzer.analyze_task(task_json, context_entries, user_prefs,
\* current_load); the clock has advanced by the time of the call.
AnalyzeTask ==
    /\ phase = "ready"
    /\ calls < MaxCalls
    /\ \E task_json \in Tasks, context_entries \in Contexts, current_load \in Loads :
       \E reply \in (IF RequestsProvider(mode, context_entries)
                     THEN Replies ELSE {NoRequest}) :
         /\ now' = now + 1
         /\ call' = [task_json |-> task_json, context_entries |-> context_entries,
                     current_load |-> current_load, reply |-> reply, now |-> now']
         /\ result' = analyze_task(mode, task_json, context_entries, PyNone,
                                   current_load, reply, now')
         /\ provider_requests' = provider_requests + (IF reply = NoRequest THEN 0 ELSE 1)
         /\ previous_failed' = (calls > 0 /\ call.reply = RequestFails)
    /\ calls' = calls + 1
    /\ UNCHANGED <<task, settings, installed, client_constructs, phase, mode, client,
                   setup_warning>>

Next == Construct \/ AnalyzeTask

Spec == Init /\ [][Next]_vars

(***************************************************************************)
(* Properties of the engine                                                *)
(***************************************************************************)
\* analyze_task has been called.
Called == call # NoCall

\* The last call returned a result.
Returned == Called /\ ~Raised(result)

\* What the rule-based path computes for the arguments of the last call.
RuleBased ==
    fallback_analysis(call.task_json, call.context_entries, PyNone,
                      call.current_load, call.now)

\* C1: whatever path built it, the result analyze_task returns has its
\* priority_score within 0..100 and its confidence_score within 0..1.
C1_ScoresInRange ==
    Returned =>
        /\ 0 <= result.ok.priority_score
        /\ result.ok.priority_score <= F(100)
        /\ 0 <= result.ok.confidence_score
        /\ result.ok.confidence_score <= F(1)

\* A result built from a provider reply whose scores are 150 and -2.
C1_Witness ==
    /\ Returned
    /\ call.reply = ReplyOutOfRange
    /\ result.ok.priority_score = F(100)
    /\ result.ok.confidence_score = 0

\* C2: analyze_task never raises to its caller, whatever the mode, the task
\* mapping, the context entries and the provider do.
C2_NeverRaises == Called => ~Raised(result)

\* C3: in a provider mode, when the provider request fails, the outcome of
\* analyze_task is the outcome of the rule-based path for the same task,
\* context entries and workload (its result, or the exception it raises
\* itself), and never the provider's error.
C3_ProviderFailureFallsBack ==
    (Called /\ mode \in provider_modes /\ call.reply = RequestFails) =>
        /\ result = RuleBased
        /\ result # Raise(RequestFails.fails)

\* A failed provider request answered with a rule-based result.
C3_Witness ==
    /\ Returned
    /\ mode \in provider_modes
    /\ call.reply = RequestFails
    /\ result.ok.confidence_score = fallback_confidence

\* C4: once the engine is constructed no step changes mode, and the call
\* after a failed provider request is again in a provider mode and sends a
\* request to the provider whenever its prompt can be built.
C4_ModeFixed ==
    [][phase = "ready" =>
         /\ mode' = mode
         /\ (Called /\ call.reply = RequestFails /\ calls' = calls + 1) =>
              /\ mode' \in provider_modes
              /\ call'.reply # NoRequest <=>
                   ~Raised(format_context_entries(OrEmptyList(call'.context_entries)))
      ]_vars

\* A call that sent a request to the provider right after a call whose
\* request failed.
C4_Witness ==
    /\ previous_failed
    /\ mode \in provider_modes
    /\ call.reply # NoRequest

\* Setting up the client of the configured provider raises.
SetupRaises ==
    Raised(provider_setup(configured_mode, settings, installed, client_constructs))

\* C5: when the setup of the provider client raises, construction completes,
\* mode is 'fallback' afterwards, and every later call takes the rule-based
\* path and sends no request to a provider.
C5_SetupFailureDowngrades ==
    (SetupRaises /\ phase # "loading") =>
        /\ phase = "ready"
        /\ mode = "fallback"
        /\ provider_requests = 0
        /\ Called => (call.reply = NoRequest /\ result = RuleBased)

\* The second call of an engine whose client setup raised returns a result.
C5_Witness ==
    /\ SetupRaises
    /\ setup_warning # ""
    /\ calls > 1
    /\ Returned

\* AI_SERVICE_MODE is unset, or set to a string that names no mode.
UnrecognisedMode ==
    \/ "AI_SERVICE_MODE" \notin DOMAIN settings
    \/ settings["AI_SERVICE_MODE"] \notin provider_modes \cup {"fallback"}

\* The engine the same process constructs when configured as 'fallback'.
ConfiguredFallback ==
    setup_ai_client("fallback", settings, installed, client_constructs)

\* C6: an engine constructed with an unset or unrecognised mode is the engine
\* configured as 'fallback': same mode and client, and every call returns
\* what that engine returns and sends no request to a provider.
C6_UnrecognisedModeIsFallback ==
    (UnrecognisedMode /\ phase # "loading") =>
        /\ phase = "ready"
        /\ mode = ConfiguredFallback.ok.mode
        /\ client = ConfiguredFallback.ok.client
        /\ provider_requests = 0
        /\ Called =>
             /\ call.reply = NoRequest
             /\ result = analyze_task(ConfiguredFallback.ok.mode, call.task_json,
                                      call.context_entries, PyNone,
                                      call.current_load, NoRequest, call.now)

\* The second call of an engine configured with a mode that does not exist.
C6_Witness ==
    /\ "AI_SERVICE_MODE" \in DOMAIN settings
    /\ settings["AI_SERVICE_MODE"] = "gpt4all"
    /\ calls > 1
    /\ Returned

\* The six fields of the result.
result_fields == {"priority_score", "suggested_deadline", "enhanced_description",
                  "suggested_categories", "confidence_score", "reasoning"}

\* The provider replied, with text that is not the JSON of an object.
NotAnObject(reply) ==
    \/ DOMAIN reply = {"text"}
    \/ DOMAIN reply = {"json"} /\ ~IsDict(reply.json)

\* The provider replied with an object that lacks one of the six fields.
LacksField(reply) ==
    /\ DOMAIN reply = {"json"}
    /\ IsDict(reply.json)
    /\ ~(result_fields \subseteq DOMAIN reply.json.dict)

\* C7 as stated: in a provider mode every reply that is not JSON, not an
\* object, or an object without one of the six fields yields the rule-based
\* result.
C7_MalformedReplyFallsBack ==
    (Called /\ mode \in provider_modes
        /\ (NotAnObject(call.reply) \/ LacksField(call.reply))) =>
        result = RuleBased

\* C7 amended: in a provider mode every reply that is not JSON or not an
\* object yields the rule-based outcome; an object without one of the six
\* fields does not: the result is built from it with the defaults of the
\* missing fields, unless normalising a field it does have raises.
C7_NonObjectReplyFallsBack ==
    (Called /\ mode \in provider_modes) =>
        /\ NotAnObject(call.reply) => result = RuleBased
        /\ LacksField(call.reply) =>
             result = IF Raised(create_analysis_result(call.reply.json))
                      THEN RuleBased
                      ELSE create_analysis_result(call.reply.json)

\* A JSON array as the reply, answered with a rule-based result.
C7_Witness ==
    /\ Returned
    /\ mode \in provider_modes
    /\ call.reply = ReplyArray
    /\ result.ok.confidence_score = fallback_confidence

\* C8: the result analyze_task returns has at most 3 suggested categories.
C8_AtMostThreeCategories ==
    (Returned /\ IsList(result.ok.suggested_categories)) =>
        Len(result.ok.suggested_categories.list) <= 3

(***************************************************************************)
(* The rule-based functions on their own                                   *)
(***************************************************************************)
\* The latest time on the clock when a rule-based function is called.
MaxNow == 1

RuleTitles == {"", "Gym bill", "Buy a book TODAY", "Office meeting"}

RuleWords == {"", "doctor", "invoice", "family", "repair", "tomorrow",
              "this week", "next week", "monthly"}

RuleDescriptions == {first \o " " \o second : first, second \in RuleWords}

RuleScores == {F(0), F(40) - 1, F(40), F(60) - 1, F(60), F(80) - 1, F(80), F(100)}

RuleLoads ==
    {PyNone, PyDict(EmptyDict), PyDict([high_priority_tasks |-> PyNum(12)]),
     PyDict([active_tasks |-> PyNum(10), high_priority_tasks |-> PyNum(0)]),
     PyDict([active_tasks |-> PyNum(11), high_priority_tasks |-> PyNum(0)])}

\* The arguments a rule-based function is applied to.
InitRules ==
    /\ call \in [title : RuleTitles, description : RuleDescriptions,
                 priority_score : RuleScores, current_load : RuleLoads,
                 now : 0..MaxNow]
    /\ phase = "arguments"
    /\ result = NoCall
    /\ task = NoTask
    /\ settings = [name \in {} |-> ""]
    /\ installed = {}
    /\ client_constructs = FALSE
    /\ mode = ""
    /\ client = NoClient
    /\ setup_warning = ""
    /\ now = 0
    /\ calls = 0
    /\ provider_requests = 0
    /\ previous_failed = FALSE

\* self._suggest_deadline(title, description, priority_score, current_load)
SuggestDeadline ==
    /\ phase = "arguments"
    /\ phase' = "_suggest_deadline"
    /\ result' = suggest_deadline(call.title, call.description, call.priority_score,
                                  call.current_load, call.now)
    /\ UNCHANGED <<task, settings, installed, client_constructs, mode, client,
                   setup_warning, now, calls, provider_requests, previous_failed,
                   call>>

\* self._suggest_categories(title, description)
SuggestCategories ==
    /\ phase = "arguments"
    /\ phase' = "_suggest_categories"
    /\ result' = Ok(suggest_categories(call.title, call.description))
    /\ UNCHANGED <<task, settings, installed, client_constructs, mode, client,
                   setup_warning, now, calls, provider_requests, previous_failed,
                   call>>

NextRules == SuggestDeadline \/ SuggestCategories

SpecRules == InitRules /\ [][NextRules]_vars

\* C9: _suggest_deadline returns a timestamp, never None, for every title,
\* description, priority score and workload, supplied or not.
C9_DeadlineNeverNull ==
    phase = "_suggest_deadline" =>
        /\ ~Raised(result)
        /\ result.ok # PyNone
        /\ DOMAIN result.ok = {"time"}
        /\ result.ok.time \in Int

\* A deadline for a text without time pattern, a score below 40 and no
\* workload.
C9_Witness ==
    /\ phase = "_suggest_deadline"
    /\ call.title = ""
    /\ call.description = "doctor family"
    /\ call.priority_score < F(40)
    /\ call.current_load = PyNone
    /\ result = Ok([time |-> call.now + 14 * 24])

\* The order of the category table.
category_order == <<"work", "health", "finance", "personal", "learning",
                    "shopping", "maintenance">>

\* The places in category_order of the categories with a keyword in the
\* lower-cased text.
MatchingCategories(text) ==
    {i \in 1..Len(category_order) :
        \E j \in 1..Len(category_keywords) :
            /\ category_keywords[j].category = category_order[i]
            /\ \E k \in 1..Len(category_keywords[j].keywords) :
                   Contains(Lower(text), category_keywords[j].keywords[k])}

\* C10: the suggested categories have no duplicates, are at most 3, and are
\* the first 3 (or fewer) matching categories in the order work, health,
\* finance, personal, learning, shopping, maintenance.
C10_FirstThreeInTableOrder ==
    phase = "_suggest_categories" =>
        LET suggested == result.ok
            matching == MatchingCategories(Blob(call.title, call.description))
        IN /\ Len(suggested) <= 3
           /\ Len(suggested) = Min(3, Cardinality(matching))
           /\ \A m, n \in 1..Len(suggested) : m # n => suggested[m] # suggested[n]
           /\ \A n \in 1..Len(suggested) :
                \E i \in matching :
                    /\ suggested[n] = category_order[i]
                    /\ Cardinality({j \in matching : j < i}) = n - 1

\* Four categories match and the fourth is dropped.
C10_Witness ==
    /\ phase = "_suggest_categories"
    /\ call.title = "Gym bill"
    /\ call.description = "family repair"
    /\ result = Ok(<<"health", "finance", "personal">>)

\* The five time patterns as stated, in the stated order, with their offsets
\* in hours.
stated_patterns ==
    << [words |-> {"today", "asap", "immediately"}, hours |-> 6],
       [words |-> {"tomorrow"}, hours |-> 24],
       [words |-> {"this week", "end of week"}, hours |-> 7 * 24],
       [words |-> {"next week"}, hours |-> 14 * 24],
       [words |-> {"month"}, hours |-> 30 * 24] >>

\* The stated patterns with a word in the text, whatever its letter case.
StatedMatches(text) ==
    {i \in 1..Len(stated_patterns) :
        \E word \in stated_patterns[i].words : Contains(Lower(text), word)}

\* C21: the five time patterns are tested in the order today|asap|immediately
\* (6 hours), tomorrow (1 day), this week|end of week (7 days), next week
\* (14 days), month (30 days), and the deadline is now plus the offset of the
\* first pattern in that order that matches, even when a later one matches too.
C21_FirstPatternWins ==
    phase = "_suggest_deadline" =>
        LET matches == StatedMatches(Blob(call.title, call.description))
        IN \A i \in matches :
               (\A j \in matches : i <= j) =>
                   result = Ok([time |-> call.now + stated_patterns[i].hours])

\* TODAY in the title, next week and monthly in the description: 6 hours.
C21_Witness ==
    /\ phase = "_suggest_deadline"
    /\ call.title = "Buy a book TODAY"
    /\ call.description = "next week monthly"
    /\ result = Ok([time |-> call.now + 6])

\* C22: when a time pattern matches the text, the deadline depends on the
\* pattern alone: it is the deadline of the same text at the same time with
\* the lowest score and no workload, and with the highest score and more than
\* 10 active tasks.
C22_PatternIgnoresScoreAndLoad ==
    (phase = "_suggest_deadline"
        /\ StatedMatches(Blob(call.title, call.description)) # {}) =>
        /\ result = suggest_deadline(call.title, call.description, F(0), PyNone,
                                     call.now)
        /\ result = suggest_deadline(call.title, call.description, F(100),
                        PyDict([active_tasks |-> PyNum(11)]), call.now)

\* 'this week' with a score of 100 and 11 active tasks: 7 days, not 1 day and
\* not 10.5 days.
C22_Witness ==
    /\ phase = "_suggest_deadline"
    /\ call.title = ""
    /\ call.description = "this week "
    /\ call.priority_score = F(100)
    /\ call.current_load # PyNone
    /\ Get(call.current_load.dict, "active_tasks", PyNum(0)) = PyNum(11)
    /\ result = Ok([time |-> call.now + 7 * 24])

\* The stated offset in hours of a priority score: 1, 3, 7 or 14 days.
StatedScoreHours(priority_score) ==
    IF priority_score >= F(80) THEN 24
    ELSE IF priority_score >= F(60) THEN 3 * 24
    ELSE IF priority_score >= F(40) THEN 7 * 24
    ELSE 14 * 24

\* A workload is supplied and counts more than 10 active tasks.
Overloaded(current_load) ==
    /\ current_load # PyNone
    /\ "active_tasks" \in DOMAIN current_load.dict
    /\ current_load.dict["active_tasks"].num > 10

\* C23: when no time pattern matches, the offset is 1 day for a score >= 80,
\* 3 for >= 60, 7 for >= 40 and 14 otherwise, multiplied by 1.5 exactly when a
\* workload with more than 10 active tasks is supplied.
C23_ScoreOffsetAndWorkload ==
    (phase = "_suggest_deadline"
        /\ StatedMatches(Blob(call.title, call.description)) = {}) =>
        LET hours == StatedScoreHours(call.priority_score)
        IN result = Ok([time |-> call.now +
                           (IF Overloaded(call.current_load)
                            THEN (hours * 3) \div 2 ELSE hours)])

\* A score of exactly 80 with 11 active tasks: a day and a half.
C23_Witness ==
    /\ phase = "_suggest_deadline"
    /\ call.title = "Gym bill"
    /\ call.description = "doctor "
    /\ call.priority_score = F(80)
    /\ Overloaded(call.current_load)
    /\ result = Ok([time |-> call.now + 36])

\* The keywords of the categories work and health, as the tests rely on them.
work_words == {"meeting", "project", "deadline", "client", "business",
               "office", "presentation"}

health_words == {"doctor", "appointment", "exercise", "gym", "medicine",
                 "health", "workout"}

\* The sequence holds the element.
Holds(sequence, element) == \E i \in 1..Len(sequence) : sequence[i] = element

\* C25: a text with a keyword of the category work has work among the
\* suggested categories, and a text with a keyword of the category health
\* has health among them, whatever other categories match.
C25_WorkAndHealthSuggested ==
    phase = "_suggest_categories" =>
        LET text == Lower(Blob(call.title, call.description))
        IN /\ (\E word \in work_words : Contains(text, word))
                  => Holds(result.ok, "work")
           /\ (\E word \in health_words : Contains(text, word))
                  => Holds(result.ok, "health")

\* Work, health and two more categories match: work and health are kept.
C25_Witness ==
    /\ phase = "_suggest_categories"
    /\ call.title = "Office meeting"
    /\ call.description = "doctor invoice"
    /\ result = Ok(<<"work", "health", "finance">>)

\* C29: every suggested deadline lies strictly after the current time of the
\* call, between 6 hours and 30 days after it, both included.
C29_DeadlineWithinSixHoursAndThirtyDays ==
    phase = "_suggest_deadline" =>
        /\ ~Raised(result)
        /\ result.ok.time > call.now
        /\ result.ok.time >= call.now + 6
        /\ result.ok.time <= call.now + 30 * 24

\* The farthest deadline: 'monthly' alone.
C29_Witness ==
    /\ phase = "_suggest_deadline"
    /\ call.title = ""
    /\ call.description = " monthly"
    /\ result = Ok([time |-> call.now + 30 * 24])

(***************************************************************************)
(* Priority scoring and description enhancement on their own               *)
(***************************************************************************)
\* The most copies of one context entry in a list of context entries.
MaxRepeat == 3

ScoreTitles == {"", "Review contract", "Maybe update documentation",
                "URGENT: recall", "Optional"}

ScoreDescriptions == {"", "Someday when we have time",
                      "Review the new client contract",
                      "urgent, urgent: overdue", "critical emergency asap",
                      "nice to have later"}

ScorePriorities == {PyStr("low"), PyStr("medium"), PyStr("high"),
                    PyStr("urgent"), PyStr("Urgent")}

ScoreEntryEmail ==
    [content |-> PyStr("URGENT: needs review by EOD"),
     source_type |-> PyStr("email")]
ScoreEntryWhatsapp ==
    [content |-> PyStr("Can you HELP?"), source_type |-> PyStr("whatsapp")]
ScoreEntryNote ==
    [content |-> PyStr("asap"), source_type |-> PyStr("note")]
ScoreEntryBare == [source_type |-> PyStr("email")]

ScoreEntries == {ScoreEntryEmail, ScoreEntryWhatsapp, ScoreEntryNote,
                 ScoreEntryBare}

\* [entry] * n
Repeat(entry, n) == [i \in 1..n |-> entry]

\* No list, and the lists of up to MaxRepeat copies of one entry followed by
\* up to MaxRepeat copies of another.
ScoreContexts ==
    {PyNone} \cup {PyList(Repeat(first, m) \o Repeat(second, n)) :
                      first, second \in ScoreEntries, m, n \in 0..MaxRepeat}

\* The context entries that are no list, or a list of at most one entry.
ShortContexts ==
    {context_entries \in ScoreContexts :
        IsList(context_entries) => Len(context_entries.list) <= 1}

\* The arguments of the calls: every text with every priority and at most
\* one context entry, and four of the texts with every priority and every
\* list of context entries.
ScoreCalls ==
    [title : ScoreTitles, description : ScoreDescriptions,
     priority : ScorePriorities, context_entries : ShortContexts]
    \cup [title : {"Review contract", "Optional"},
          description : {"", "critical emergency asap"},
          priority : ScorePriorities, context_entries : ScoreContexts]

\* The arguments of a call of _calculate_priority_score or
\* _enhance_description: the title, description and priority of the task
\* mapping and the context entries.
InitScore ==
    /\ call \in ScoreCalls
    /\ phase = "arguments"
    /\ result = NoCall
    /\ task = NoTask
    /\ settings = [name \in {} |-> ""]
    /\ installed = {}
    /\ client_constructs = FALSE
    /\ mode = ""
    /\ client = NoClient
    /\ setup_warning = ""
    /\ now = 0
    /\ calls = 0
    /\ provider_requests = 0
    /\ previous_failed = FALSE

\* The call of _calculate_priority_score with the title and the description
\* as they are in the task mapping, not lower-cased.
CalculatePriorityScoreCaseSensitive ==
    /\ phase = "arguments"
    /\ phase' = "_calculate_priority_score"
    /\ result' = calculate_priority_score(call.title, call.description,
                                          call.priority, call.context_entries)
    /\ UNCHANGED <<task, settings, installed, client_constructs, mode, client,
                   setup_warning, now, calls, provider_requests, previous_failed,
                   call>>

\* title = task_json.get('title', '').lower(), the same for the description,
\* then self._calculate_priority_score(title, description, current_priority,
\* context_entries)
CalculatePriorityScore ==
    /\ phase = "arguments"
    /\ phase' = "_calculate_priority_score"
    /\ result' = calculate_priority_score(Lower(call.title), Lower(call.description),
                                          call.priority, call.context_entries)
    /\ UNCHANGED <<task, settings, installed, client_constructs, mode, client,
                   setup_warning, now, calls, provider_requests, previous_failed,
                   call>>

\* self._enhance_description(task_json, context_entries)
EnhanceDescription ==
    /\ phase = "arguments"
    /\ phase' = "_enhance_description"
    /\ result' = enhance_description(
                     [title |-> PyStr(call.title),
                      description |-> PyStr(call.description),
                      priority |-> call.priority],
                     call.context_entries)
    /\ UNCHANGED <<task, settings, installed, client_constructs, mode, client,
                   setup_warning, now, calls, provider_requests, previous_failed,
                   call>>

NextScore == CalculatePriorityScore \/ EnhanceDescription

SpecScore == InitScore /\ [][NextScore]_vars

\* The call of _calculate_priority_score has returned a score.
Scored == phase = "_calculate_priority_score" /\ ~Raised(result)

\* The keywords of a table that occur in the lower-cased title+description.
Present(table, title, description) ==
    {table[i].keyword : i \in {j \in 1..Len(table) :
        Contains(Lower(Blob(title, description)), table[j].keyword)}}

\* The urgency and the calming keywords present in every text of the model.
UrgencyPresent ==
    [text \in ScoreTitles \X ScoreDescriptions |->
        Present(urgency_keywords, text[1], text[2])]
CalmingPresent ==
    [text \in ScoreTitles \X ScoreDescriptions |->
        Present(calming_keywords, text[1], text[2])]

\* The score of another text with the priority and the context entries of
\* the call.
ScoreOfText(text) ==
    calculate_priority_score(Lower(text[1]), Lower(text[2]), call.priority,
                             call.context_entries).ok

\* The pairs of texts of which the second has the calming keywords of the
\* first and at least its urgency keywords.
MoreUrgent ==
    {pair \in (ScoreTitles \X ScoreDescriptions) \X (ScoreTitles \X ScoreDescriptions) :
        /\ UrgencyPresent[pair[1]] \subseteq UrgencyPresent[pair[2]]
        /\ CalmingPresent[pair[1]] = CalmingPresent[pair[2]]}

\* The pairs of texts of which the second has the urgency keywords of the
\* first and at least its calming keywords.
MoreCalming ==
    {pair \in (ScoreTitles \X ScoreDescriptions) \X (ScoreTitles \X ScoreDescriptions) :
        /\ CalmingPresent[pair[1]] \subseteq CalmingPresent[pair[2]]
        /\ UrgencyPresent[pair[1]] = UrgencyPresent[pair[2]]}

\* The number of pairs of texts that C11 compares.
ComparablePairs == Cardinality(MoreUrgent) + Cardinality(MoreCalming)

\* C11: with the priority and the context entries held fixed, a text with
\* the same calming keywords and at least the urgency keywords of another
\* scores no lower, and a text with the same urgency keywords and at least
\* the calming keywords of another scores no higher.
C11_MonotoneInKeywords ==
    Scored =>
        LET here == <<call.title, call.description>>
        IN /\ \A other \in ScoreTitles \X ScoreDescriptions :
                <<here, other>> \in MoreUrgent => result.ok <= ScoreOfText(other)
           /\ \A other \in ScoreTitles \X ScoreDescriptions :
                <<here, other>> \in MoreCalming => result.ok >= ScoreOfText(other)

\* Adding the title "URGENT: recall" to the description "critical emergency
\* asap" adds two urgency keywords, and the score of the larger set is not
\* below the score of the smaller one.
C11_Witness ==
    /\ Scored
    /\ call.title = ""
    /\ call.description = "critical emergency asap"
    /\ call.priority = PyStr("low")
    /\ call.context_entries = PyNone
    /\ <<<<"", "critical emergency asap">>,
         <<"URGENT: recall", "critical emergency asap">>>> \in MoreUrgent
    /\ ComparablePairs = 240
    /\ result.ok = F(85)
    /\ ScoreOfText(<<"URGENT: recall", "critical emergency asap">>) = F(100)

\* C12: a task of priority 'medium' whose text contains 'maybe' and
\* 'someday' and no other keyword, scored without context entries, gets
\* exactly 25, which is below 40.
C12_MaybeSomedayScores25 ==
    (/\ Scored
     /\ call.priority = PyStr("medium")
     /\ ~Truthy(call.context_entries)
     /\ UrgencyPresent[<<call.title, call.description>>] = {}
     /\ CalmingPresent[<<call.title, call.description>>] = {"maybe", "someday"})
       => /\ result = Ok(F(25))
          /\ result.ok < F(40)

\* The task of the test: 'Maybe update documentation', 'Someday when we have
\* time'.
C12_Witness ==
    /\ Scored
    /\ call.title = "Maybe update documentation"
    /\ call.description = "Someday when we have time"
    /\ call.priority = PyStr("medium")
    /\ call.context_entries = PyNone
    /\ result = Ok(F(25))

\* The text has no urgency and no calming keyword.
NoKeyword ==
    /\ UrgencyPresent[<<call.title, call.description>>] = {}
    /\ CalmingPresent[<<call.title, call.description>>] = {}

\* The context entries are exactly one entry, of source_type 'email', whose
\* content contains 'urgent' in any letter case.
OneUrgentEmail(context_entries) ==
    /\ IsList(context_entries)
    /\ Len(context_entries.list) = 1
    /\ Get(context_entries.list[1], "source_type", PyNone) = PyStr("email")
    /\ IsStr(Get(context_entries.list[1], "content", PyNone))
    /\ Contains(Lower(context_entries.list[1].content.str), "urgent")

C16_EmptyDescriptionStaysEmpty ==
    (phase = "_enhance_description" /\ call.description = "")
        => result = Ok(PyStr(""))

\* An empty description with two e-mails and a WhatsApp message as context.
C16_Witness ==
    /\ phase = "_enhance_description"
    /\ call.description = ""
    /\ call.context_entries
         = PyList(<<ScoreEntryEmail, ScoreEntryEmail, ScoreEntryWhatsapp>>)
    /\ result = Ok(PyStr(""))

\* The weights of the urgency and of the calming keywords as stated.
stated_weight ==
    [urgent |-> 20, asap |-> 15, immediately |-> 15, critical |-> 20,
     emergency |-> 25, deadline |-> 10, due |-> 8, important |-> 5,
     priority |-> 5, meeting |-> 8, call |-> 6, email |-> 3,
     someday |-> -15, maybe |-> -10, later |-> -8, whenever |-> -12,
     eventually |-> -10, optional |-> -15] @@ ("nice to have" :> -10)

\* The base of the declared priority as stated.
stated_base(current_priority) ==
    CASE current_priority = PyStr("low") -> 25
      [] current_priority = PyStr("medium") -> 50
      [] current_priority = PyStr("high") -> 75
      [] current_priority = PyStr("urgent") -> 90
      [] OTHER -> 50

RECURSIVE SumOver(_, _)
\* The sum of weight[k] over the keywords k of a set.
SumOver(weight, keywords) ==
    IF keywords = {} THEN 0
    ELSE LET k == CHOOSE k \in keywords : TRUE
         IN weight[k] + SumOver(weight, keywords \ {k})

\* The keywords with a stated weight that occur as a substring of the
\* lower-cased title+description.
Occurring(title, description) ==
    {k \in DOMAIN stated_weight : Contains(Lower(Blob(title, description)), k)}

\* A context entry qualifies: its source_type is 'whatsapp' or 'email' and
\* its lower-cased content contains one of urgent, asap, need, help.
Qualifies(entry) ==
    /\ Get(entry, "source_type", PyStr("")) \in {PyStr("whatsapp"), PyStr("email")}
    /\ \E word \in {"urgent", "asap", "need", "help"} :
           Contains(Lower(Get(entry, "content", PyStr("")).str), word)

\* The number of qualifying entries among all the context entries.
QualifyingCount(context_entries) ==
    IF ~Truthy(context_entries) THEN 0
    ELSE Cardinality({i \in 1..Len(context_entries.list) :
                         Qualifies(context_entries.list[i])})

\* C19: the score is the sum of the base of the declared priority, of the
\* weight of every urgency and calming keyword that occurs in the
\* lower-cased text (once each) and of 10 per qualifying context entry, and
\* only that sum is clamped to 0..100.
C19_ScoreIsClampedSum ==
    Scored =>
        LET sum == stated_base(call.priority)
                   + SumOver(stated_weight, Occurring(call.title, call.description))
                   + 10 * QualifyingCount(call.context_entries)
        IN result.ok = F(IF sum > 100 THEN 100 ELSE IF sum < 0 THEN 0 ELSE sum)

\* Priority 'urgent' with three urgency keywords and a calming one: the sum
\* 90 + 60 - 15 = 135 is clamped to 100, where clamping 150 first would
\* give 85.
C19_Witness ==
    /\ Scored
    /\ call.title = "Optional"
    /\ call.description = "critical emergency asap"
    /\ call.priority = PyStr("urgent")
    /\ call.context_entries = PyNone
    /\ result = Ok(F(100))

\* The sum of the base and of the keyword weights of the text of the call,
\* before any context entry and before clamping.
TextScore ==
    priority_base(call.priority)
    + KeywordAdjustment(urgency_keywords, Lower(Blob(call.title, call.description)))
    + KeywordAdjustment(calming_keywords, Lower(Blob(call.title, call.description)))

\* C20: every context entry is scanned, however many there are; each
\* qualifying entry adds 10 before the final clamp, and leaving out the
\* entries that do not qualify (any other source_type, or none of the
\* words) leaves the score as it is.
C20_EveryEntryCounts ==
    (Scored /\ Truthy(call.context_entries)) =>
        /\ result.ok = Min(F(100), Max(F(0),
               TextScore + F(10) * QualifyingCount(call.context_entries)))
        /\ result = calculate_priority_score(
                        Lower(call.title), Lower(call.description), call.priority,
                        PyList(SelectSeq(call.context_entries.list, Qualifies)))

\* Six entries, the qualifying ones in places four to six: +30.
C20_Witness ==
    /\ Scored
    /\ call.title = "Review contract"
    /\ call.description = ""
    /\ call.priority = PyStr("medium")
    /\ call.context_entries
         = PyList(Repeat(ScoreEntryNote, 3) \o Repeat(ScoreEntryWhatsapp, 3))
    /\ result = Ok(F(80))

\* The context entries of source_type email or whatsapp, wherever they stand
\* in the list, in input order.
MessageEntries(context_entries) ==
    IF context_entries = PyNone THEN <<>>
    ELSE SelectSeq(context_entries.list,
                   LAMBDA entry : /\ "source_type" \in DOMAIN entry
                                  /\ entry["source_type"]
                                       \in {PyStr("email"), PyStr("whatsapp")})

\* 'Context from <source_type>: <first 100 chars of content>...'
StatedContextLine(entry) ==
    LET content == IF "content" \in DOMAIN entry THEN entry["content"].str ELSE ""
    IN "Context from " \o entry["source_type"].str \o ": "
       \o SubSeq(content, 1, Min(100, Len(content))) \o "..."

\* C24: for a non-empty description the enhancement appends a context block
\* whenever at least one context entry has source_type email or whatsapp,
\* wherever it stands in the list; the block holds the first two such entries
\* in input order; with no such entry the description is returned unchanged.
C24_BlockOfFirstTwoMessageEntries ==
    (phase = "_enhance_description" /\ call.description # "") =>
        LET entries == MessageEntries(call.context_entries)
            head == call.description \o "\n\nAdditional context:\n"
        IN result = Ok(PyStr(
               IF entries = <<>> THEN call.description
               ELSE IF Len(entries) = 1 THEN head \o StatedContextLine(entries[1])
               ELSE head \o StatedContextLine(entries[1]) \o "\n"
                         \o StatedContextLine(entries[2])))

(***************************************************************************)
(* More properties of the engine                                           *)
(***************************************************************************)
\* C14: with the engine in mode 'fallback', a task of priority 'medium'
\* whose title and description contain no urgency keyword, analysed with one
\* 'email' context entry whose content contains 'urgent', gets a
\* priority_score strictly greater than 60.
C14_UrgentEmailScoresAbove60 ==
    (/\ Returned
     /\ mode = "fallback"
     /\ Get(call.task_json, "priority", PyNone) = PyStr("medium")
     /\ Present(urgency_keywords, call.task_json.title.str,
                call.task_json.description.str) = {}
     /\ OneUrgentEmail(call.context_entries))
       => result.ok.priority_score > F(60)

\* The last call took the rule-based path: the engine is in mode 'fallback',
\* or the provider path raised, or the reply of the provider is not JSON.
RuleBasedPathTaken ==
    \/ mode = "fallback"
    \/ Raised(ai_analysis(call.task_json, call.context_entries, PyNone,
                          call.current_load, call.reply, call.now))
    \/ DOMAIN call.reply = {"text"}

\* C17: every result of the rule-based path has confidence_score 0.6,
\* whether the path was taken by configuration, after a failure of the
\* provider path, or after a reply that is not JSON.
C17_RuleBasedConfidence ==
    (Returned /\ RuleBasedPathTaken) => result.ok.confidence_score = 60

\* The task of the test ('URGENT', priority 'high') analysed in mode
\* 'fallback': score 100, confidence 0.6.
C17_Witness ==
    /\ Returned
    /\ mode = "fallback"
    /\ call.task_json = TaskUrgent
    /\ result.ok.priority_score = F(100)
    /\ result.ok.confidence_score = 60

(***************************************************************************)
(* The functions of the provider path on their own                         *)
(***************************************************************************)
\* A field the reply does not have.
Absent == [absent |-> TRUE]

\* The dict with the one field, or without it.
Field(name, value) ==
    IF value = Absent THEN EmptyDict ELSE [key \in {name} |-> value]

\* priority_score of a reply: absent, in range, above the range, a word, null.
PriorityValues == {Absent, PyNum(F(85)), PyNum(F(150)), PyStr("high"), PyNone}

\* confidence_score of a reply: absent, in range, a word.
ConfidenceValues == {Absent, PyNum(90), PyStr("very")}

\* suggested_deadline of a reply: absent, 'null' in mixed case, text that is
\* no date, an ISO-8601 date, a number.
DeadlineValues == {Absent, PyStr("NuLl"), PyStr("next friday"),
                   PyStr("2024-01-02T12:00:00"), PyNum(5)}

\* The three other fields of a reply, all absent or all present.
OtherFields ==
    {EmptyDict,
     [enhanced_description |-> PyStr("Restart the server"),
      suggested_categories |-> PyList(<<"work", "maintenance">>),
      reasoning |-> PyStr("production outage")]}

\* The objects json.loads hands to _create_analysis_result.
ResultDatas ==
    {PyDict(Field("priority_score", priority)
            @@ Field("confidence_score", confidence)
            @@ Field("suggested_deadline", deadline) @@ others) :
        priority \in PriorityValues, confidence \in ConfidenceValues,
        deadline \in DeadlineValues, others \in OtherFields}

RECURSIVE Copies(_, _)
\* text * n
Copies(text, n) ==
    IF n = 0 THEN ""
    ELSE LET half == Copies(text, n \div 2)
         IN half \o half \o (IF n % 2 = 1 THEN text ELSE "")

\* A content of 201 characters: the last one is beyond [:200].
LongContent == Copies("a", 200) \o "Z"

FormatEntryLong ==
    [source_type |-> PyStr("email"), content |-> PyStr(LongContent),
     timestamp |-> PyStr("2024-01-01T09:00")]

\* Seven entries that differ in their content.
NumberedEntries ==
    [i \in 1..7 |-> [source_type |-> PyStr("whatsapp"),
                     content |-> PyStr(<<"c1", "c2", "c3", "c4", "c5", "c6",
                                         "c7">>[i])]]

FormatEntries == {FormatEntryLong, EmptyDict, ScoreEntryEmail}

\* The lists _format_context_entries is applied to: none to seven different
\* entries, and up to MaxRepeat copies of one entry before those of another.
FormatContexts ==
    {SubSeq(NumberedEntries, 1, n) : n \in 0..Len(NumberedEntries)}
    \cup {Repeat(first, m) \o Repeat(second, n) :
             first, second \in FormatEntries, m, n \in 0..MaxRepeat}

\* The argument of one call of a function of the provider path.
InitProvider ==
    /\ call \in [result_data : ResultDatas]
                \cup [context_entries : FormatContexts]
    /\ phase = "arguments"
    /\ result = NoCall
    /\ task = NoTask
    /\ settings = [name \in {} |-> ""]
    /\ installed = {}
    /\ client_constructs = FALSE
    /\ mode = ""
    /\ client = NoClient
    /\ setup_warning = ""
    /\ now = 0
    /\ calls = 0
    /\ provider_requests = 0
    /\ previous_failed = FALSE

\* self._create_analysis_result(result_data)
CreateAnalysisResult ==
    /\ phase = "arguments"
    /\ "result_data" \in DOMAIN call
    /\ phase' = "_create_analysis_result"
    /\ result' = create_analysis_result(call.result_data)
    /\ UNCHANGED <<task, settings, installed, client_constructs, mode, client,
                   setup_warning, now, calls, provider_requests, previous_failed,
                   call>>

\* self._format_context_entries(context_entries)
FormatContextEntries ==
    /\ phase = "arguments"
    /\ "context_entries" \in DOMAIN call
    /\ phase' = "_format_context_entries"
    /\ result' = format_context_entries(call.context_entries)
    /\ UNCHANGED <<task, settings, installed, client_constructs, mode, client,
                   setup_warning, now, calls, provider_requests, previous_failed,
                   call>>

NextProvider == CreateAnalysisResult \/ FormatContextEntries

SpecProvider == InitProvider /\ [][NextProvider]_vars

\* The value is a number, or absent.
NumberOrAbsent(data, name) == name \in DOMAIN data => IsNum(data[name])

\* The value is text, or absent.
TextOrAbsent(data, name) == name \in DOMAIN data => IsStr(data[name])

\* C26: priority_score and confidence_score are read with defaults: a field
\* that is absent or not a number yields 50.0 (0.5) and the normalizer does
\* not raise; enhanced_description, suggested_categories and reasoning
\* default to '', [] and '' when absent.  Stated for replies whose
\* suggested_deadline is absent or text.
C26_ScoreDefaults ==
    (phase = "_create_analysis_result"
        /\ TextOrAbsent(call.result_data.dict, "suggested_deadline")) =>
        LET data == call.result_data.dict
        IN /\ ~Raised(result)
           /\ ~NumberOrAbsent(data, "priority_score") \/ "priority_score" \notin DOMAIN data
                  => result.ok.priority_score = F(50)
           /\ ~NumberOrAbsent(data, "confidence_score") \/ "confidence_score" \notin DOMAIN data
                  => result.ok.confidence_score = 50
           /\ "enhanced_description" \notin DOMAIN data
                  => result.ok.enhanced_description = PyStr("")
           /\ "suggested_categories" \notin DOMAIN data
                  => result.ok.suggested_categories = PyList(<<>>)
           /\ "reasoning" \notin DOMAIN data => result.ok.reasoning = PyStr("")

\* The suggested_deadline of the reply is an ISO-8601 time.
ParsableDeadline(data) ==
    /\ "suggested_deadline" \in DOMAIN data
    /\ data["suggested_deadline"] = PyStr("2024-01-02T12:00:00")

\* C27: the normalizer never raises on suggested_deadline: absent, 'null' in
\* any letter case, or a present value that is no ISO-8601 time, the result
\* has no suggested_deadline and the other fields of the reply are used.
\* Stated for replies whose scores are numbers or absent.
C27_DeadlineNeverRaises ==
    (phase = "_create_analysis_result"
        /\ NumberOrAbsent(call.result_data.dict, "priority_score")
        /\ NumberOrAbsent(call.result_data.dict, "confidence_score")) =>
        LET data == call.result_data.dict
        IN /\ ~Raised(result)
           /\ ~ParsableDeadline(data) => result.ok.suggested_deadline = PyNone
           /\ "priority_score" \in DOMAIN data
                  => result.ok.priority_score
                       = Min(F(100), Max(F(0), data["priority_score"].num))
           /\ "reasoning" \in DOMAIN data
                  => result.ok.reasoning = data["reasoning"]

\* '[<SOURCE_TYPE>] <timestamp>: <first 200 characters of the content>'
StatedPromptLine(entry) ==
    LET source == IF "source_type" \in DOMAIN entry
                  THEN entry["source_type"].str ELSE "unknown"
        content == IF "content" \in DOMAIN entry THEN entry["content"].str ELSE ""
        timestamp == IF "timestamp" \in DOMAIN entry
                     THEN entry["timestamp"].str ELSE ""
    IN "[" \o Upper(source) \o "] " \o timestamp \o ": "
       \o SubSeq(content, 1, Min(200, Len(content)))

RECURSIVE StatedPromptLines(_, _, _)
\* The lines of the entries from one place to another, one per line.
StatedPromptLines(entries, from, to) ==
    IF from = to THEN StatedPromptLine(entries[from])
    ELSE StatedPromptLine(entries[from]) \o "\n"
         \o StatedPromptLines(entries, from + 1, to)

\* C28: the context block of a prompt has one line for each of the first 5
\* entries, in input order, with the content cut to its first 200
\* characters; with no entries it is 'No additional context available.'.
C28_FirstFiveEntriesTruncated ==
    phase = "_format_context_entries" =>
        LET entries == call.context_entries
        IN result = Ok(IF entries = <<>>
                       THEN "No additional context available."
                       ELSE StatedPromptLines(entries, 1, Min(5, Len(entries))))

\* Six entries, the first three with a content of 201 characters: five lines,
\* none with the 201st character.
C28_Witness ==
    /\ phase = "_format_context_entries"
    /\ call.context_entries
         = Repeat(FormatEntryLong, 3) \o Repeat(ScoreEntryEmail, 3)
    /\ ~Raised(result)
    /\ ~Contains(result.ok, "Z")
    /\ Contains(result.ok, "aaaa\n[EMAIL] 2024-01-01T09:00: aaaa")
    /\ Len(result.ok) = 756

(***************************************************************************)
(* Task.save (backend/tasks/models.py)                                     *)
(***************************************************************************)
\* The most calls of Task.save on one instance.
MaxSaves == 3

\* STATUS_CHOICES, and a status outside them (save does not validate).
TaskStatuses == {"todo", "in_progress", "done", "archived"}

\* The values of completed_at a caller can have assigned by the time `clock`.
Timestamps(clock) == {PyNone} \cup {[time |-> t] : t \in 0..clock}

\* A Task instance that has not been saved: Task(status=..., category=...),
\* with completed_at as the caller set it.
InitTask ==
    /\ task \in [pk : {PyNone}, status : TaskStatuses,
                 completed_at : Timestamps(0), category : BOOLEAN,
                 usage_frequency : {0}, row : {PyNone}]
    /\ phase = "new"
    /\ call = NoCall
    /\ result = NoCall
    /\ now = 0
    /\ calls = 0
    /\ settings = [name \in {} |-> ""]
    /\ installed = {}
    /\ client_constructs = FALSE
    /\ mode = ""
    /\ client = NoClient
    /\ setup_warning = ""
    /\ provider_requests = 0
    /\ previous_failed = FALSE

\* task.status = status
SetStatus ==
    /\ phase \in {"new", "edited", "saved"}
    /\ \E status \in TaskStatuses \ {task.status} :
           task' = [task EXCEPT !.status = status]
    /\ phase' = "edited"
    /\ UNCHANGED <<settings, installed, client_constructs, mode, client,
                   setup_warning, now, calls, provider_requests, previous_failed,
                   call, result>>

\* task.completed_at = value, as create_sample_data does before it saves
SetCompletedAt ==
    /\ phase \in {"new", "edited", "saved"}
    /\ \E value \in Timestamps(now) \ {task.completed_at} :
           task' = [task EXCEPT !.completed_at = value]
    /\ phase' = "edited"
    /\ UNCHANGED <<settings, installed, client_constructs, mode, client,
                   setup_warning, now, calls, provider_requests, previous_failed,
                   call, result>>

\* Task.save without its elif branch: completed_at is never cleared.
SaveKeepingTimestamp ==
    /\ phase \in {"new", "edited", "saved"}
    /\ calls < MaxSaves
    /\ now' = now + 1
    /\ calls' = calls + 1
    /\ call' = [status |-> task.status, completed_at |-> task.completed_at]
    /\ LET usage_frequency ==
               IF task.pk = PyNone /\ task.category
               THEN task.usage_frequency + 1 ELSE task.usage_frequency
           completed_at ==
               IF task.status = "done" /\ task.completed_at = PyNone
               THEN [time |-> now']
               ELSE task.completed_at
       IN task' = [task EXCEPT
                      !.usage_frequency = usage_frequency,
                      !.completed_at = completed_at,
                      !.pk = PyNum(1),
                      !.row = [status |-> task.status,
                               completed_at |-> completed_at]]
    /\ result' = Ok(PyNone)
    /\ phase' = "saved"
    /\ UNCHANGED <<settings, installed, client_constructs, mode, client,
                   setup_warning, provider_requests, previous_failed>>

\* Task.save without 'and not self.completed_at': every save of a task that
\* is 'done' stamps it with the current time.
SaveRestamping ==
    /\ phase \in {"new", "edited", "saved"}
    /\ calls < MaxSaves
    /\ now' = now + 1
    /\ calls' = calls + 1
    /\ call' = [status |-> task.status, completed_at |-> task.completed_at]
    /\ LET usage_frequency ==
               IF task.pk = PyNone /\ task.category
               THEN task.usage_frequency + 1 ELSE task.usage_frequency
           completed_at ==
               IF task.status = "done" THEN [time |-> now'] ELSE PyNone
       IN task' = [task EXCEPT
                      !.usage_frequency = usage_frequency,
                      !.completed_at = completed_at,
                      !.pk = PyNum(1),
                      !.row = [status |-> task.status,
                               completed_at |-> completed_at]]
    /\ result' = Ok(PyNone)
    /\ phase' = "saved"
    /\ UNCHANGED <<settings, installed, client_constructs, mode, client,
                   setup_warning, provider_requests, previous_failed>>

\* Task.save; the clock has advanced by the time of the call.
Save ==
    /\ phase \in {"new", "edited", "saved"}
    /\ calls < MaxSaves
    /\ now' = now + 1
    /\ calls' = calls + 1
    /\ call' = [status |-> task.status, completed_at |-> task.completed_at]
    /\ LET usage_frequency ==
               IF task.pk = PyNone /\ task.category
               THEN task.usage_frequency + 1 ELSE task.usage_frequency
           completed_at ==
               IF task.status = "done" /\ task.completed_at = PyNone
               THEN [time |-> now']
               ELSE IF task.status # "done" THEN PyNone
               ELSE task.completed_at
       IN task' = [task EXCEPT
                      !.usage_frequency = usage_frequency,
                      !.completed_at = completed_at,
                      !.pk = PyNum(1),
                      !.row = [status |-> task.status,
                               completed_at |-> completed_at]]
    /\ result' = Ok(PyNone)
    /\ phase' = "saved"
    /\ UNCHANGED <<settings, installed, client_constructs, mode, client,
                   setup_warning, provider_requests, previous_failed>>

NextTask == SetStatus \/ SetCompletedAt \/ Save

SpecTask == InitTask /\ [][NextTask]_vars

\* C18: right after every Task.save, on the instance and in its row,
\* completed_at is set if and only if status is 'done'.
C18_CompletedIffDone ==
    phase = "saved" =>
        /\ task.completed_at # PyNone <=> task.status = "done"
        /\ task.row.completed_at # PyNone <=> task.row.status = "done"
        /\ task.status = "done" => DOMAIN task.completed_at = {"time"}

\* A third save, of a task whose status is no longer 'done' and whose
\* completed_at was still set when save was called: save cleared it.
C18_Witness ==
    /\ phase = "saved"
    /\ calls = 3
    /\ call.status = "todo"
    /\ call.completed_at # PyNone
    /\ task.completed_at = PyNone

\* C30: a Task.save of a task that is 'done' and has completed_at set leaves
\* completed_at as it is; a save changes completed_at only by clearing it,
\* when the status is not 'done', or by setting it to the time of the save,
\* when the status is 'done' and it is unset.
C30_SaveKeepsCompletedAt ==
    [][calls' = calls + 1 =>
          /\ (task.status = "done" /\ task.completed_at # PyNone)
                 => /\ task'.completed_at = task.completed_at
                    /\ task'.row.completed_at = task.completed_at
          /\ task'.completed_at # task.completed_at
                 => \/ task.status # "done" /\ task'.completed_at = PyNone
                    \/ /\ task.status = "done"
                       /\ task.completed_at = PyNone
                       /\ task'.completed_at = [time |-> now']]_vars

\* A second save of a task that is 'done': completed_at is still the time of
\* the first save.
C30_Witness ==
    /\ phase = "saved"
    /\ calls = 2
    /\ now = 2
    /\ call.status = "done"
    /\ call.completed_at = [time |-> 1]
    /\ task.completed_at = [time |-> 1]
    /\ task.row = [status |-> "done", completed_at |-> [time |-> 1]]

====
